---------------------------- MODULE Spec2Model ----------------------------
(***************************************************************************)
(* Mailbox transport layer between CPU1 (application core) and CPU2        *)
(* (wireless coprocessor) of the STM32WB: reference-table bootstrap,       *)
(* system-event drain into the application ring, interrupt demultiplexing  *)
(* and the wireless firmware information record.                           *)
(*                                                                         *)
(* CPU1 is one sequential process whose position is pc; CPU2 is an         *)
(* independent process that acts on the shared memory and on the doorbell  *)
(* flags between any two CPU1 steps.                                       *)
(***************************************************************************)
EXTENDS Integers, Sequences, FiniteSets, TLC

(***************************************************************************)
(* Bounds of the model.                                                    *)
(***************************************************************************)
\* Event nodes CPU2 links in the event-path specification (the ring holds
\* 32, so the 33rd undelivered event needs at least 33).
MaxNodes == 33
\* Event nodes CPU2 links in the interrupt-demultiplexing specifications.
MaxDemuxNodes == 2

\* Event nodes CPU2 links on the system channel used in both directions.
MaxSysNodes == 3

\* Event nodes CPU2 links while both interrupt handlers are exercised.
MaxIrqNodes == 1

\* Event nodes CPU2 links, at either end, while the list itself is examined.
MaxListNodes == 4

(***************************************************************************)
(* Program constants.                                                      *)
(***************************************************************************)
\* heapless::consts::U32 of HeaplessEvtQueue
RingCapacity == 32
\* IpccChannel::Channel1 ..= Channel6
NumChannels == 6
Channels == 1..NumChannels

\* channels::cpu1
IPCC_BLE_CMD_CHANNEL == 1
IPCC_SYSTEM_CMD_RSP_CHANNEL == 2
IPCC_THREAD_OT_CMD_RSP_CHANNEL == 3
IPCC_THREAD_CLI_CMD_CHANNEL == 5
IPCC_MM_RELEASE_BUFFER_CHANNEL == 4
IPCC_HCI_ACL_DATA_CHANNEL == 6

\* channels::cpu2
IPCC_BLE_EVENT_CHANNEL == 1
IPCC_SYSTEM_EVENT_CHANNEL == 2
IPCC_THREAD_NOTIFICATION_ACK_CHANNEL == 3
IPCC_TRACES_CHANNEL == 4
IPCC_THREAD_CLI_NOTIFICATION_ACK_CHANNEL == 5

(***************************************************************************)
(* Shared memory: the statics of tl_mbox.rs.                               *)
(***************************************************************************)
RefTableSlots ==
    { "device_info_table", "ble_table", "thread_table", "sys_table",
      "mem_manager_table", "traces_table", "mac_802_15_4_table" }

SubTables ==
    { "TL_DEVICE_INFO_TABLE", "TL_BLE_TABLE", "TL_THREAD_TABLE", "TL_SYS_TABLE",
      "TL_MEM_MANAGER_TABLE", "TL_TRACES_TABLE", "TL_MAC_802_15_4_TABLE" }

\* The byte buffers placed in MB_MEM2.
SharedBuffers ==
    { "CS_BUFFER", "SYS_CMD_BUF", "EVT_POOL", "SYS_SPARE_EVT_BUF", "BLE_SPARE_EVT_BUF" }

Regions == SubTables \cup SharedBuffers

\* Address of the list head SYSTEM_EVT_QUEUE; event nodes are 1..MaxNodes.
SYSTEM_EVT_QUEUE == 0
\* A pointer field that holds no linkage: memory never written, or the
\* fields of a node that has been unlinked (their stale values are dead).
NoPtr == -1
Addrs == 0..MaxNodes

VARIABLES
    pc,          \* position of CPU1
    cpu2Running, \* hal::pwr::set_cpu2(true) has released CPU2
    refTable,    \* TL_REF_TABLE: slot -> static it points to, or "uninit"
    mem,         \* region -> "uninit" | "zeroed" | "written"
    sysTable,    \* TL_SYS_TABLE: [pcmd_buffer, sys_queue]
    wfw,         \* TL_DEVICE_INFO_TABLE.wireless_fw_info_table
    lst,         \* next/prev pointers of the queue head and of every node
    linked,      \* history: the nodes in the order CPU2 linked them
    ring,        \* TlMbox.evt_queue
    delivered,   \* history: the events dequeue_event returned, in order
    drained,     \* nodes unlinked by the running (or last) evt_handler call
    rxFlag,      \* CPU2-to-CPU1 channel flags (set by CPU2, cleared by CPU1)
    rxEnabled,   \* CPU1 rx-occupied interrupt unmasked, per channel
    txFlag,      \* CPU1-to-CPU2 channel flags (set by CPU1, cleared by CPU2)
    txEnabled,   \* CPU1 tx-free interrupt unmasked, per channel
    lastOp,      \* the operation the last step belongs to
    irq,         \* what the last interrupt handler call logged and delegated to
    deqRet,      \* Option<EvtBox> of the last dequeue_event: <<>> or <<node>>
    fwRet,       \* Option<WirelessFwInfoTable> of the last wireless_fw_info
    fwShown,     \* the fields the application decoded from fwRet
    sysCmd       \* history: phase of the system command/response handshake

vars ==
    << pc, cpu2Running, refTable, mem, sysTable, wfw, lst, linked, ring,
       delivered, drained, rxFlag, rxEnabled, txFlag, txEnabled, lastOp,
       irq, deqRet, fwRet, fwShown, sysCmd >>

bootVars == << cpu2Running, refTable, mem, sysTable >>
ipccVars == << rxFlag, rxEnabled, txFlag, txEnabled >>
evtVars == << lst, linked, ring, delivered, drained >>
outVars == << irq, deqRet, fwRet, fwShown >>

(***************************************************************************)
(* 32-bit words are sets of the positions of their 1 bits, so that bit 31  *)
(* is representable.                                                       *)
(***************************************************************************)
Zero32 == {}

BitsOf(n) == { b \in 0..7 : (n \div (2 ^ b)) % 2 = 1 }

ShiftLeft(w, k) == { b + k : b \in w }

\* Value of a word that fits 8 bits.
RECURSIVE NatOfFrom(_, _)
NatOfFrom(w, b) ==
    IF b > 7 THEN 0
    ELSE (IF b \in w THEN 2 ^ b ELSE 0) + NatOfFrom(w, b + 1)

NatOf(w) == NatOfFrom(w, 0)

\* The word whose four bytes are b3 (bits 24-31) .. b0 (bits 0-7).
Pack32(b3, b2, b1, b0) ==
    ShiftLeft(BitsOf(b3), 24) \cup ShiftLeft(BitsOf(b2), 16)
        \cup ShiftLeft(BitsOf(b1), 8) \cup BitsOf(b0)


(***************************************************************************)
(* WirelessFwInfoTable and its accessors (bit_field::BitField::get_bits    *)
(* takes a half-open range lo..hi).                                        *)
(***************************************************************************)
get_bits(w, lo, hi) == { b - lo : b \in { x \in w : lo <= x /\ x < hi } }

and_0xff(w) == { b \in w : b < 8 }

as_u8(w) == NatOf({ b \in w : b < 8 })

version_major(info) == as_u8(and_0xff(get_bits(info.version, 24, 31)))

version_minor(info) == as_u8(and_0xff(get_bits(info.version, 16, 23)))

subversion(info) == as_u8(and_0xff(get_bits(info.version, 8, 15)))

flash_size(info) == as_u8(and_0xff(get_bits(info.memory_size, 0, 7)))

sram2a_size(info) == as_u8(and_0xff(get_bits(info.memory_size, 24, 31)))

sram2b_size(info) == as_u8(and_0xff(get_bits(info.memory_size, 16, 23)))

\* The version words and memory_size words CPU2 writes in the model.
VersionWords ==
    { Zero32, Pack32(1, 10, 3, 0), Pack32(130, 1, 255, 15), Pack32(0, 200, 0, 1) }

MemSizeWords ==
    { Zero32, Pack32(10, 20, 0, 64), Pack32(192, 32, 0, 255), Pack32(255, 128, 0, 128) }

ZeroedFwInfo == [version |-> Zero32, memory_size |-> Zero32]

NoFields ==
    [major |-> 0, minor |-> 0, subversion |-> 0, flash |-> 0, sram2a |-> 0, sram2b |-> 0]

(***************************************************************************)
(* unsafe_linked_list: circular doubly linked list over shared memory.     *)
(* l is [next, prev], two functions from addresses to addresses.           *)
(***************************************************************************)
LST_init_head(l, head) ==
    [next |-> [l.next EXCEPT ![head] = head],
     prev |-> [l.prev EXCEPT ![head] = head]]

LST_is_empty(l, head) == l.next[head] = head

LST_insert_tail(l, head, node) ==
    LET last == l.prev[head] IN
    [next |-> [[l.next EXCEPT ![node] = head] EXCEPT ![last] = node],
     prev |-> [[l.prev EXCEPT ![node] = last] EXCEPT ![head] = node]]

LST_insert_head(l, head, node) ==
    LET first == l.next[head] IN
    [next |-> [[l.next EXCEPT ![node] = first] EXCEPT ![head] = node],
     prev |-> [[l.prev EXCEPT ![node] = head] EXCEPT ![first] = node]]

\* The node LST_remove_head hands back through its out-pointer.
LST_head_node(l, head) == l.next[head]

LST_remove_head_PrevNotRelinked(l, head) ==
    LET node == l.next[head]
        n == l.next[node]
        p == l.prev[node]
    IN  [next |-> [[l.next EXCEPT ![p] = n] EXCEPT ![node] = NoPtr],
         prev |-> [l.prev EXCEPT ![node] = NoPtr]]

LST_remove_head(l, head) ==
    LET node == l.next[head]
        n == l.next[node]
        p == l.prev[node]
    IN  [next |-> [[l.next EXCEPT ![p] = n] EXCEPT ![node] = NoPtr],
         prev |-> [[l.prev EXCEPT ![n] = p] EXCEPT ![node] = NoPtr]]

\* The nodes of the list from its head, by next pointers.
RECURSIVE LST_walk(_, _, _, _)
LST_walk(l, head, cur, fuel) ==
    IF cur = head \/ cur = NoPtr \/ fuel = 0 THEN << >>
    ELSE << cur >> \o LST_walk(l, head, l.next[cur], fuel - 1)

\* The nodes of the list from its head, by prev pointers.
RECURSIVE LST_walk_back(_, _, _, _)
LST_walk_back(l, head, cur, fuel) ==
    IF cur = head \/ cur = NoPtr \/ fuel = 0 THEN << >>
    ELSE << cur >> \o LST_walk_back(l, head, l.prev[cur], fuel - 1)

SysQueue == LST_walk(lst, SYSTEM_EVT_QUEUE, lst.next[SYSTEM_EVT_QUEUE], MaxNodes + 1)

(***************************************************************************)
(* heapless::spsc::Queue<EvtBox, U32>.                                     *)
(***************************************************************************)
\* enqueue: Err(item) when the queue is full.
RingIsFull_OffByOne(q) == Len(q) > RingCapacity

RingIsFull(q) == Len(q) >= RingCapacity

RingEnqueue_Front(q, e) == << e >> \o q

RingEnqueue_Twice(q, e) == q \o << e, e >>

RingEnqueue(q, e) == Append(q, e)

RingDequeueItem_Newest(q) == IF q = << >> THEN << >> ELSE << q[Len(q)] >>

RingDequeueRest_Keep(q) == q

\* dequeue: None on an empty queue, else the oldest item.
RingDequeueItem(q) == IF q = << >> THEN << >> ELSE << Head(q) >>

RingDequeueRest(q) == IF q = << >> THEN q ELSE Tail(q)

(***************************************************************************)
(* Ipcc: the doorbell peripheral.                                          *)
(***************************************************************************)
is_rx_pending(c) == rxFlag[c] /\ rxEnabled[c]

is_tx_pending(c) == ~txFlag[c] /\ txEnabled[c]

NoIrq == [log |-> << >>, handler |-> "none"]

(***************************************************************************)
(* Initial state: reset. Shared memory is uninitialised, every channel     *)
(* flag is clear and every channel interrupt is masked.                    *)
(***************************************************************************)
Init ==
    /\ pc = "tl_init_ref_table"
    /\ cpu2Running = FALSE
    /\ refTable = [s \in RefTableSlots |-> "uninit"]
    /\ mem = [r \in Regions |-> "uninit"]
    /\ sysTable = [pcmd_buffer |-> "uninit", sys_queue |-> "uninit"]
    /\ wfw \in [version : VersionWords, memory_size : MemSizeWords]
    /\ lst = [next |-> [a \in Addrs |-> NoPtr], prev |-> [a \in Addrs |-> NoPtr]]
    /\ linked = << >>
    /\ ring = << >>
    /\ delivered = << >>
    /\ drained = << >>
    /\ rxFlag = [c \in Channels |-> FALSE]
    /\ rxEnabled = [c \in Channels |-> FALSE]
    /\ txFlag = [c \in Channels |-> FALSE]
    /\ txEnabled = [c \in Channels |-> FALSE]
    /\ lastOp = "reset"
    /\ irq = NoIrq
    /\ deqRet = << >>
    /\ fwRet = << >>
    /\ fwShown = NoFields
    /\ sysCmd = "Idle"

(***************************************************************************)
(* TlMbox::tl_init, in program order, then the release of CPU2 by the      *)
(* application's init.                                                     *)
(***************************************************************************)
RefTableImage_SlotForgotten ==
    [s \in RefTableSlots |->
        CASE s = "device_info_table" -> "TL_DEVICE_INFO_TABLE"
          [] s = "ble_table" -> "TL_BLE_TABLE"
          [] s = "thread_table" -> "TL_THREAD_TABLE"
          [] s = "sys_table" -> "TL_SYS_TABLE"
          [] s = "mem_manager_table" -> "TL_MEM_MANAGER_TABLE"
          [] s = "traces_table" -> "TL_TRACES_TABLE"
          [] s = "mac_802_15_4_table" -> "uninit"]

\* TL_REF_TABLE = MaybeUninit::new(RefTable { ... })
RefTableImage ==
    [s \in RefTableSlots |->
        CASE s = "device_info_table" -> "TL_DEVICE_INFO_TABLE"
          [] s = "ble_table" -> "TL_BLE_TABLE"
          [] s = "thread_table" -> "TL_THREAD_TABLE"
          [] s = "sys_table" -> "TL_SYS_TABLE"
          [] s = "mem_manager_table" -> "TL_MEM_MANAGER_TABLE"
          [] s = "traces_table" -> "TL_TRACES_TABLE"
          [] s = "mac_802_15_4_table" -> "TL_MAC_802_15_4_TABLE"]

\* The statics tl_init assigns MaybeUninit::zeroed() to.
ZeroedTables ==
    { "TL_SYS_TABLE", "TL_DEVICE_INFO_TABLE", "TL_BLE_TABLE", "TL_THREAD_TABLE",
      "TL_MEM_MANAGER_TABLE", "TL_TRACES_TABLE", "TL_MAC_802_15_4_TABLE" }

ZeroedBuffers == { "EVT_POOL", "SYS_SPARE_EVT_BUF", "BLE_SPARE_EVT_BUF" }

tl_init_ref_table ==
    /\ pc = "tl_init_ref_table"
    /\ refTable' = RefTableImage
    /\ pc' = "tl_init_zero_tables"
    /\ lastOp' = "tl_init"
    /\ UNCHANGED << sysCmd, cpu2Running, mem, sysTable, wfw, evtVars, ipccVars, outVars >>

tl_init_zero_tables ==
    /\ pc = "tl_init_zero_tables"
    /\ mem' = [r \in Regions |-> IF r \in ZeroedTables THEN "zeroed" ELSE mem[r]]
    /\ sysTable' = [pcmd_buffer |-> "null", sys_queue |-> "null"]
    /\ wfw' = ZeroedFwInfo
    /\ pc' = "tl_init_zero_buffers"
    /\ lastOp' = "tl_init"
    /\ UNCHANGED << sysCmd, cpu2Running, refTable, evtVars, ipccVars, outVars >>

tl_init_zero_buffers ==
    /\ pc = "tl_init_zero_buffers"
    /\ mem' = [r \in Regions |-> IF r \in ZeroedBuffers THEN "zeroed" ELSE mem[r]]
    /\ pc' = "sys_new_init_head"
    /\ lastOp' = "tl_init"
    /\ UNCHANGED << sysCmd, cpu2Running, refTable, sysTable, wfw, evtVars, ipccVars, outVars >>

\* Sys::new: LST_init_head(SYSTEM_EVT_QUEUE)
sys_new_init_head ==
    /\ pc = "sys_new_init_head"
    /\ lst' = LST_init_head(lst, SYSTEM_EVT_QUEUE)
    /\ pc' = "sys_new_table"
    /\ lastOp' = "tl_init"
    /\ UNCHANGED << sysCmd, bootVars, wfw, linked, ring, delivered, drained, ipccVars, outVars >>

sys_new_table_LeftZeroed ==
    /\ pc = "sys_new_table"
    /\ pc' = "sys_new_arm"
    /\ lastOp' = "tl_init"
    /\ UNCHANGED << sysCmd, bootVars, wfw, evtVars, ipccVars, outVars >>

\* Sys::new: TL_SYS_TABLE = MaybeUninit::new(SysTable { ... })
sys_new_table ==
    /\ pc = "sys_new_table"
    /\ sysTable' = [pcmd_buffer |-> "SYS_CMD_BUF", sys_queue |-> "SYSTEM_EVT_QUEUE"]
    /\ mem' = [mem EXCEPT !["TL_SYS_TABLE"] = "written"]
    /\ pc' = "sys_new_arm"
    /\ lastOp' = "tl_init"
    /\ UNCHANGED << sysCmd, cpu2Running, refTable, wfw, evtVars, ipccVars, outVars >>

\* Sys::new: ipcc.c1_set_rx_channel(IPCC_SYSTEM_EVENT_CHANNEL, true)
sys_new_arm ==
    /\ pc = "sys_new_arm"
    /\ rxEnabled' = [rxEnabled EXCEPT ![IPCC_SYSTEM_EVENT_CHANNEL] = TRUE]
    /\ pc' = "tl_init_return"
    /\ lastOp' = "tl_init"
    /\ UNCHANGED << sysCmd, bootVars, wfw, evtVars, rxFlag, txFlag, txEnabled, outVars >>

\* evt_queue = Queue::u8_sc(); TlMbox { sys, mm, config, evt_queue }
tl_init_return ==
    /\ pc = "tl_init_return"
    /\ ring' = << >>
    /\ pc' = "set_cpu2"
    /\ lastOp' = "tl_init"
    /\ UNCHANGED << sysCmd, bootVars, wfw, lst, linked, delivered, drained, ipccVars, outVars >>

\* examples/usb_ble.rs init: hal::pwr::set_cpu2(true)
set_cpu2 ==
    /\ pc = "set_cpu2"
    /\ cpu2Running' = TRUE
    /\ pc' = "idle"
    /\ lastOp' = "set_cpu2"
    /\ UNCHANGED << sysCmd, refTable, mem, sysTable, wfw, evtVars, ipccVars, outVars >>

Boot ==
    \/ tl_init_ref_table
    \/ tl_init_zero_tables
    \/ tl_init_zero_buffers
    \/ sys_new_init_head
    \/ sys_new_table
    \/ sys_new_arm
    \/ tl_init_return
    \/ set_cpu2

(***************************************************************************)
(* CPU2: the wireless coprocessor, once released.                          *)
(***************************************************************************)
\* Links the next event node at the tail of the system event queue.
cpu2_link_event(limit) ==
    /\ cpu2Running
    /\ Len(linked) < limit
    /\ LET node == Len(linked) + 1 IN
        /\ lst' = LST_insert_tail(lst, SYSTEM_EVT_QUEUE, node)
        /\ linked' = Append(linked, node)
    /\ lastOp' = "cpu2"
    /\ UNCHANGED << sysCmd, pc, bootVars, wfw, ring, delivered, drained, ipccVars, outVars >>

\* Channel discipline: CPU2 touches the shared queue of a channel only while
\* the channel is free, then pulses the doorbell.
cpu2_post_event(limit) ==
    /\ ~rxFlag[IPCC_SYSTEM_EVENT_CHANNEL]
    /\ cpu2_link_event(limit)

\* Links the next event node at the head of the system event queue.
cpu2_link_event_head(limit) ==
    /\ cpu2Running
    /\ Len(linked) < limit
    /\ LET node == Len(linked) + 1 IN
        /\ lst' = LST_insert_head(lst, SYSTEM_EVT_QUEUE, node)
        /\ linked' = Append(linked, node)
    /\ lastOp' = "cpu2"
    /\ UNCHANGED << sysCmd, pc, bootVars, wfw, ring, delivered, drained, ipccVars, outVars >>

\* Pulses the doorbell of channel c towards CPU1.
cpu2_set_flag(c) ==
    /\ cpu2Running
    /\ rxFlag' = [rxFlag EXCEPT ![c] = TRUE]
    /\ lastOp' = "cpu2"
    /\ UNCHANGED << sysCmd, pc, bootVars, wfw, evtVars, rxEnabled, txFlag, txEnabled, outVars >>

\* Releases channel c that CPU1 had occupied.
cpu2_clear_flag(c) ==
    /\ cpu2Running
    /\ txFlag' = [txFlag EXCEPT ![c] = FALSE]
    /\ sysCmd' = IF c = IPCC_SYSTEM_CMD_RSP_CHANNEL /\ txFlag[c]
                    THEN "ResponseReady" ELSE sysCmd
    /\ lastOp' = "cpu2"
    /\ UNCHANGED << pc, bootVars, wfw, evtVars, rxFlag, rxEnabled, txEnabled, outVars >>

\* Writes one 32-bit word of the wireless firmware information table.
cpu2_write_fw_version(v) ==
    /\ cpu2Running
    /\ wfw' = [wfw EXCEPT !.version = v]
    /\ mem' = [mem EXCEPT !["TL_DEVICE_INFO_TABLE"] = "written"]
    /\ lastOp' = "cpu2"
    /\ UNCHANGED << sysCmd, pc, cpu2Running, refTable, sysTable, evtVars, ipccVars, outVars >>

cpu2_write_fw_memory_size(m) ==
    /\ cpu2Running
    /\ wfw' = [wfw EXCEPT !.memory_size = m]
    /\ mem' = [mem EXCEPT !["TL_DEVICE_INFO_TABLE"] = "written"]
    /\ lastOp' = "cpu2"
    /\ UNCHANGED << sysCmd, pc, cpu2Running, refTable, sysTable, evtVars, ipccVars, outVars >>

(***************************************************************************)
(* The application's use of the Ipcc driver on channels the transport      *)
(* does not arm itself.                                                    *)
(***************************************************************************)
\* ipcc.c1_set_rx_channel(c, true)
app_set_rx_channel(c) ==
    /\ pc = "idle"
    /\ rxEnabled' = [rxEnabled EXCEPT ![c] = TRUE]
    /\ lastOp' = "app"
    /\ UNCHANGED << sysCmd, pc, bootVars, wfw, evtVars, rxFlag, txFlag, txEnabled, outVars >>

\* ipcc.c1_set_tx_channel(c, true)
app_set_tx_channel(c) ==
    /\ pc = "idle"
    /\ txEnabled' = [txEnabled EXCEPT ![c] = TRUE]
    /\ lastOp' = "app"
    /\ UNCHANGED << sysCmd, pc, bootVars, wfw, evtVars, rxFlag, rxEnabled, txFlag, outVars >>

(***************************************************************************)
(* TlMbox::interrupt_ipcc_rx_handler and Sys::evt_handler.                 *)
(***************************************************************************)
rx_branch_BleFirst ==
    IF is_rx_pending(IPCC_BLE_EVENT_CHANNEL) THEN "IRQ IPCC_BLE_EVENT_CHANNEL"
    ELSE IF is_rx_pending(IPCC_SYSTEM_EVENT_CHANNEL) THEN "IRQ IPCC_SYSTEM_EVENT_CHANNEL"
    ELSE IF is_rx_pending(IPCC_THREAD_NOTIFICATION_ACK_CHANNEL)
        THEN "IRQ IPCC_THREAD_NOTIFICATION_ACK_CHANNEL"
    ELSE IF is_rx_pending(IPCC_TRACES_CHANNEL) THEN "IRQ IPCC_TRACES_CHANNEL"
    ELSE IF is_rx_pending(IPCC_THREAD_CLI_NOTIFICATION_ACK_CHANNEL)
        THEN "IRQ THREAD_CLI_NOTIFICATION_ACK_CHANNEL"
    ELSE ""

rx_branch_SysLast ==
    IF is_rx_pending(IPCC_THREAD_NOTIFICATION_ACK_CHANNEL)
        THEN "IRQ IPCC_THREAD_NOTIFICATION_ACK_CHANNEL"
    ELSE IF is_rx_pending(IPCC_BLE_EVENT_CHANNEL) THEN "IRQ IPCC_BLE_EVENT_CHANNEL"
    ELSE IF is_rx_pending(IPCC_TRACES_CHANNEL) THEN "IRQ IPCC_TRACES_CHANNEL"
    ELSE IF is_rx_pending(IPCC_THREAD_CLI_NOTIFICATION_ACK_CHANNEL)
        THEN "IRQ THREAD_CLI_NOTIFICATION_ACK_CHANNEL"
    ELSE IF is_rx_pending(IPCC_SYSTEM_EVENT_CHANNEL) THEN "IRQ IPCC_SYSTEM_EVENT_CHANNEL"
    ELSE ""

\* The line the if/else-if chain prints: the branch it takes ("" for none).
rx_branch ==
    IF is_rx_pending(IPCC_SYSTEM_EVENT_CHANNEL) THEN "IRQ IPCC_SYSTEM_EVENT_CHANNEL"
    ELSE IF is_rx_pending(IPCC_THREAD_NOTIFICATION_ACK_CHANNEL)
        THEN "IRQ IPCC_THREAD_NOTIFICATION_ACK_CHANNEL"
    ELSE IF is_rx_pending(IPCC_BLE_EVENT_CHANNEL) THEN "IRQ IPCC_BLE_EVENT_CHANNEL"
    ELSE IF is_rx_pending(IPCC_TRACES_CHANNEL) THEN "IRQ IPCC_TRACES_CHANNEL"
    ELSE IF is_rx_pending(IPCC_THREAD_CLI_NOTIFICATION_ACK_CHANNEL)
        THEN "IRQ THREAD_CLI_NOTIFICATION_ACK_CHANNEL"
    ELSE ""

interrupt_ipcc_rx_handler ==
    /\ pc = "idle"
    /\ LET b == rx_branch
           sys == (b = "IRQ IPCC_SYSTEM_EVENT_CHANNEL")
       IN  /\ irq' = [log |-> IF b = "" THEN << >> ELSE << b >>,
                      handler |-> IF sys THEN "Sys::evt_handler" ELSE "none"]
           /\ pc' = IF sys THEN "evt_handler_loop" ELSE "idle"
    /\ drained' = << >>
    /\ deqRet' = << >>
    /\ fwRet' = << >>
    /\ fwShown' = NoFields
    /\ lastOp' = "interrupt_ipcc_rx_handler"
    /\ UNCHANGED << sysCmd, bootVars, wfw, lst, linked, ring, delivered, ipccVars >>

evt_handler_loop_OneNode ==
    /\ pc = "evt_handler_loop"
    /\ IF LST_is_empty(lst, SYSTEM_EVT_QUEUE)
       THEN /\ pc' = "evt_handler_clear"
            /\ UNCHANGED << lst, ring, drained >>
       ELSE LET node == LST_head_node(lst, SYSTEM_EVT_QUEUE) IN
            /\ lst' = LST_remove_head(lst, SYSTEM_EVT_QUEUE)
            /\ drained' = Append(drained, node)
            /\ IF RingIsFull(ring)
               THEN /\ pc' = "panicked"
                    /\ ring' = ring
               ELSE /\ pc' = "evt_handler_clear"
                    /\ ring' = RingEnqueue(ring, node)
    /\ lastOp' = "evt_handler"
    /\ UNCHANGED << sysCmd, bootVars, wfw, linked, delivered, ipccVars, outVars >>

\* One turn of `while !LST_is_empty(..) { LST_remove_head(..); queue.enqueue(..).unwrap() }`
evt_handler_loop ==
    /\ pc = "evt_handler_loop"
    /\ IF LST_is_empty(lst, SYSTEM_EVT_QUEUE)
       THEN /\ pc' = "evt_handler_clear"
            /\ UNCHANGED << lst, ring, drained >>
       ELSE LET node == LST_head_node(lst, SYSTEM_EVT_QUEUE) IN
            /\ lst' = LST_remove_head(lst, SYSTEM_EVT_QUEUE)
            /\ drained' = Append(drained, node)
            /\ IF RingIsFull(ring)
               THEN /\ pc' = "panicked"
                    /\ ring' = ring
               ELSE /\ pc' = "evt_handler_loop"
                    /\ ring' = RingEnqueue(ring, node)
    /\ lastOp' = "evt_handler"
    /\ UNCHANGED << sysCmd, bootVars, wfw, linked, delivered, ipccVars, outVars >>

\* ipcc.c1_clear_flag_channel(IPCC_SYSTEM_EVENT_CHANNEL), then return
evt_handler_clear ==
    /\ pc = "evt_handler_clear"
    /\ rxFlag' = [rxFlag EXCEPT ![IPCC_SYSTEM_EVENT_CHANNEL] = FALSE]
    /\ pc' = "idle"
    /\ lastOp' = "evt_handler_return"
    /\ UNCHANGED << sysCmd, bootVars, wfw, evtVars, rxEnabled, txFlag, txEnabled, outVars >>

(***************************************************************************)
(* TlMbox::dequeue_event                                                   *)
(***************************************************************************)
dequeue_event ==
    /\ pc = "idle"
    /\ deqRet' = RingDequeueItem(ring)
    /\ ring' = RingDequeueRest(ring)
    /\ delivered' = delivered \o RingDequeueItem(ring)
    /\ drained' = << >>
    /\ irq' = NoIrq
    /\ fwRet' = << >>
    /\ fwShown' = NoFields
    /\ lastOp' = "dequeue_event"
    /\ UNCHANGED << sysCmd, pc, bootVars, wfw, lst, linked, ipccVars >>

(***************************************************************************)
(* TlMbox::wireless_fw_info and its use by the application's evt task.     *)
(***************************************************************************)
\* What &(*(*TL_REF_TABLE).device_info_table).wireless_fw_info_table may read.
fw_info_read ==
    IF refTable["device_info_table"] = "TL_DEVICE_INFO_TABLE"
    THEN { wfw }
    ELSE [version : VersionWords, memory_size : MemSizeWords]

fw_info_result_AnyWord(info) ==
    IF info.version # Zero32 \/ info.memory_size # Zero32 THEN << info >> ELSE << >>

fw_info_result(info) == IF info.version # Zero32 THEN << info >> ELSE << >>

wireless_fw_info ==
    /\ pc = "idle"
    /\ \E info \in fw_info_read : fwRet' = fw_info_result(info)
    /\ fwShown' = NoFields
    /\ irq' = NoIrq
    /\ deqRet' = << >>
    /\ drained' = << >>
    /\ lastOp' = "wireless_fw_info"
    /\ UNCHANGED << sysCmd, pc, bootVars, wfw, lst, linked, ring, delivered, ipccVars >>

\* examples/usb_ble.rs evt: if let Some(fw_info) = mbox.wireless_fw_info() { print fields }
fw_fields(info) ==
    [major |-> version_major(info), minor |-> version_minor(info),
     subversion |-> subversion(info), flash |-> flash_size(info),
     sram2a |-> sram2a_size(info), sram2b |-> sram2b_size(info)]

app_show_fw_info ==
    /\ pc = "idle"
    /\ \E info \in fw_info_read :
        /\ fwRet' = fw_info_result(info)
        /\ fwShown' = IF fwRet' # << >> THEN fw_fields(fwRet'[1]) ELSE NoFields
    /\ irq' = NoIrq
    /\ deqRet' = << >>
    /\ drained' = << >>
    /\ lastOp' = "app_show_fw_info"
    /\ UNCHANGED << sysCmd, pc, bootVars, wfw, lst, linked, ring, delivered, ipccVars >>

(***************************************************************************)
(* sys::send_cmd, TlMbox::interrupt_ipcc_tx_handler, Sys::cmd_evt_handler  *)
(***************************************************************************)
\* The positions of the application's own code: before it calls tl_init,
\* between tl_init and the release of CPU2, and after its init has finished.
AppPositions == { "tl_init_ref_table", "set_cpu2", "idle" }

\* A free function taking only the Ipcc handle (no TlMbox, no Sys): the
\* application can call it wherever it holds the handle.  It does not look at
\* the channel flag before setting it.
send_cmd ==
    /\ pc \in AppPositions
    /\ sysCmd' = "AwaitingResponse"
    /\ txFlag' = [txFlag EXCEPT ![IPCC_SYSTEM_CMD_RSP_CHANNEL] = TRUE]
    /\ txEnabled' = [txEnabled EXCEPT ![IPCC_SYSTEM_CMD_RSP_CHANNEL] = TRUE]
    /\ irq' = NoIrq
    /\ deqRet' = << >>
    /\ fwRet' = << >>
    /\ fwShown' = NoFields
    /\ drained' = << >>
    /\ lastOp' = "send_cmd"
    /\ UNCHANGED << pc, bootVars, wfw, lst, linked, ring, delivered, rxFlag, rxEnabled >>

tx_branch_ReleaseFirst ==
    IF is_tx_pending(IPCC_MM_RELEASE_BUFFER_CHANNEL) THEN "IRQ IPCC_MM_RELEASE_BUFFER_CHANNEL"
    ELSE IF is_tx_pending(IPCC_SYSTEM_CMD_RSP_CHANNEL) THEN "IRQ IPCC_SYSTEM_CMD_RSP_CHANNEL"
    ELSE IF is_tx_pending(IPCC_THREAD_OT_CMD_RSP_CHANNEL)
        THEN "IQR IPCC_THREAD_OT_CMD_RSP_CHANNEL"
    ELSE IF is_tx_pending(IPCC_HCI_ACL_DATA_CHANNEL) THEN "IRQ IPCC_HCI_ACL_DATA_CHANNEL"
    ELSE ""

tx_branch ==
    IF is_tx_pending(IPCC_SYSTEM_CMD_RSP_CHANNEL) THEN "IRQ IPCC_SYSTEM_CMD_RSP_CHANNEL"
    ELSE IF is_tx_pending(IPCC_THREAD_OT_CMD_RSP_CHANNEL)
        THEN "IQR IPCC_THREAD_OT_CMD_RSP_CHANNEL"
    ELSE IF is_tx_pending(IPCC_MM_RELEASE_BUFFER_CHANNEL)
        THEN "IRQ IPCC_MM_RELEASE_BUFFER_CHANNEL"
    ELSE IF is_tx_pending(IPCC_HCI_ACL_DATA_CHANNEL) THEN "IRQ IPCC_HCI_ACL_DATA_CHANNEL"
    ELSE ""

cmd_evt_handler_StaysEnabled(en) == en

cmd_evt_handler_AllOff(en) == [c \in Channels |-> FALSE]

\* Sys::cmd_evt_handler: c1_set_tx_channel(IPCC_SYSTEM_CMD_RSP_CHANNEL, false)
cmd_evt_handler(en) == [en EXCEPT ![IPCC_SYSTEM_CMD_RSP_CHANNEL] = FALSE]

\* The address of SYS_CMD_BUF, distinct from every event node's.
SysCmdBufAddr == MaxNodes + 1

cmd_evt_forward_ToRing(q) == Append(q, SysCmdBufAddr)

\* Sys::cmd_evt_handler decodes the response in place and logs it; nothing is
\* handed to the application ring ("TODO: send event upstream").
cmd_evt_forward(q) == q

\* mm::free_buf_handler: acknowledges the buffer-release channel
free_buf_handler(en) == [en EXCEPT ![IPCC_MM_RELEASE_BUFFER_CHANNEL] = FALSE]

interrupt_ipcc_tx_handler ==
    /\ pc = "idle"
    /\ LET b == tx_branch
           sys == (b = "IRQ IPCC_SYSTEM_CMD_RSP_CHANNEL")
           mm == (b = "IRQ IPCC_MM_RELEASE_BUFFER_CHANNEL")
       IN  /\ irq' = [log |-> << "IRQ interrupt_ipcc_tx_handler" >>
                                \o (IF b = "" THEN << >> ELSE << b >>)
                                \o (IF sys THEN << "Comand Complete Event" >> ELSE << >>),
                      handler |-> IF sys THEN "Sys::cmd_evt_handler"
                                  ELSE IF mm THEN "mm::free_buf_handler" ELSE "none"]
           /\ txEnabled' = IF sys THEN cmd_evt_handler(txEnabled)
                           ELSE IF mm THEN free_buf_handler(txEnabled) ELSE txEnabled
           /\ ring' = IF sys THEN cmd_evt_forward(ring) ELSE ring
           /\ sysCmd' = IF sys THEN "Idle" ELSE sysCmd
    /\ deqRet' = << >>
    /\ fwRet' = << >>
    /\ fwShown' = NoFields
    /\ drained' = << >>
    /\ lastOp' = "interrupt_ipcc_tx_handler"
    /\ UNCHANGED << pc, bootVars, wfw, lst, linked, delivered, rxFlag, rxEnabled, txFlag >>

(***************************************************************************)
(* Specifications.                                                         *)
(***************************************************************************)
\* The system event path: CPU2 links events and pulses the system event
\* doorbell; CPU1 runs the rx interrupt and the application dequeues.
Next ==
    \/ Boot
    \/ cpu2_link_event(MaxNodes)
    \/ cpu2_set_flag(IPCC_SYSTEM_EVENT_CHANNEL)
    \/ interrupt_ipcc_rx_handler
    \/ evt_handler_loop
    \/ evt_handler_clear
    \/ dequeue_event

Spec == Init /\ [][Next]_vars

\* Rx demultiplexing: every rx channel may be armed and pulsed.
NextRx ==
    \/ Boot
    \/ cpu2_link_event(MaxDemuxNodes)
    \/ \E c \in Channels : cpu2_set_flag(c)
    \/ \E c \in Channels : app_set_rx_channel(c)
    \/ interrupt_ipcc_rx_handler
    \/ evt_handler_loop
    \/ evt_handler_clear
    \/ dequeue_event

SpecRx == Init /\ [][NextRx]_vars

\* The tx channels the application arms through the Ipcc driver: all but the
\* system command channel, whose interrupt only send_cmd enables.
AppTxChannels == Channels \ { IPCC_SYSTEM_CMD_RSP_CHANNEL }

\* Tx demultiplexing: system commands, and every other tx channel may be armed.
NextTx ==
    \/ Boot
    \/ send_cmd
    \/ \E c \in Channels : cpu2_clear_flag(c)
    \/ \E c \in AppTxChannels : app_set_tx_channel(c)
    \/ interrupt_ipcc_tx_handler

SpecTx == Init /\ [][NextTx]_vars

\* The system channel in both directions, with CPU2 keeping the channel
\* discipline on the event queue.
NextSys ==
    \/ Boot
    \/ cpu2_post_event(MaxSysNodes)
    \/ cpu2_set_flag(IPCC_SYSTEM_EVENT_CHANNEL)
    \/ interrupt_ipcc_rx_handler
    \/ evt_handler_loop
    \/ evt_handler_clear
    \/ dequeue_event
    \/ send_cmd
    \/ cpu2_clear_flag(IPCC_SYSTEM_CMD_RSP_CHANNEL)
    \/ interrupt_ipcc_tx_handler

SpecSys == Init /\ [][NextSys]_vars

\* The channels exercised when both handlers run side by side: beside the
\* system channel, two inert rx channels and the buffer-release and bulk data
\* tx channels.
IrqRxChannels ==
    { IPCC_SYSTEM_EVENT_CHANNEL, IPCC_THREAD_NOTIFICATION_ACK_CHANNEL, IPCC_TRACES_CHANNEL }

IrqTxChannels ==
    { IPCC_SYSTEM_CMD_RSP_CHANNEL, IPCC_MM_RELEASE_BUFFER_CHANNEL, IPCC_HCI_ACL_DATA_CHANNEL }

\* Both interrupt handlers, several channels pending at once.
NextIrq ==
    \/ Boot
    \/ cpu2_link_event(MaxIrqNodes)
    \/ \E c \in IrqRxChannels : cpu2_set_flag(c)
    \/ \E c \in IrqRxChannels \ { IPCC_SYSTEM_EVENT_CHANNEL } : app_set_rx_channel(c)
    \/ interrupt_ipcc_rx_handler
    \/ evt_handler_loop
    \/ evt_handler_clear
    \/ send_cmd
    \/ cpu2_clear_flag(IPCC_SYSTEM_CMD_RSP_CHANNEL)
    \/ \E c \in IrqTxChannels \ { IPCC_SYSTEM_CMD_RSP_CHANNEL } : app_set_tx_channel(c)
    \/ interrupt_ipcc_tx_handler

SpecIrq == Init /\ [][NextIrq]_vars

\* The intrusive list: CPU2 inserts at either end, the drain loop removes
\* from the head.
NextList ==
    \/ Boot
    \/ cpu2_link_event(MaxListNodes)
    \/ cpu2_link_event_head(MaxListNodes)
    \/ cpu2_set_flag(IPCC_SYSTEM_EVENT_CHANNEL)
    \/ interrupt_ipcc_rx_handler
    \/ evt_handler_loop
    \/ evt_handler_clear

SpecList == Init /\ [][NextList]_vars

\* The wireless firmware information record.
NextFw ==
    \/ Boot
    \/ \E v \in VersionWords : cpu2_write_fw_version(v)
    \/ \E m \in MemSizeWords : cpu2_write_fw_memory_size(m)
    \/ wireless_fw_info
    \/ app_show_fw_info

SpecFw == Init /\ [][NextFw]_vars

(***************************************************************************)
(* Properties.                                                             *)
(***************************************************************************)
IsPrefix(s, t) == Len(s) <= Len(t) /\ SubSeq(t, 1, Len(s)) = s

\* The newest n entries of q.
Newest(q, n) == SubSeq(q, Len(q) - n + 1, Len(q))

\* C1: end-to-end delivery on the system event channel. Under any
\* interleaving of CPU2 links and pulses, rx interrupts and dequeue_event
\* calls, the events dequeue_event has returned are a prefix of the link
\* order; while the ring has not overflowed, returned events, ring and
\* shared queue together are exactly the linked nodes in link order (no
\* loss, no duplicate, no reordering); when the drain loop has seen the
\* queue empty, every node linked so far is returned or in the ring; each
\* successful dequeue returns the next event of the link order, and
\* dequeue_event returns empty only when every enqueued event was returned.
C1_EndToEndDelivery ==
    /\ IsPrefix(delivered, linked)
    /\ pc # "panicked" => delivered \o ring \o SysQueue = linked
    /\ (pc = "evt_handler_clear" /\ lastOp = "evt_handler") => delivered \o ring = linked
    /\ (lastOp = "dequeue_event" /\ deqRet # << >>) =>
            /\ delivered # << >>
            /\ deqRet[1] = linked[Len(delivered)]
    /\ (lastOp = "dequeue_event" /\ deqRet = << >>) => ring = << >>

\* Three events were linked, drained and returned in link order, and the
\* next dequeue_event returned empty.
C1_Witness ==
    /\ lastOp = "dequeue_event"
    /\ deqRet = << >>
    /\ Len(linked) = 3
    /\ delivered = linked

\* C2: every turn of the drain loop of Sys::evt_handler that finds the
\* shared queue non-empty and the ring not full unlinks exactly the head
\* node and appends exactly one handle for it at the tail of the ring; the
\* loop ends only on an empty queue; so the k nodes one call unlinked are
\* the newest k entries of the ring in unlink order, which is link order.
C2_DrainEnqueuesInOrder ==
    /\ [][ (lastOp' = "evt_handler" /\ pc' # "panicked") =>
              IF SysQueue = << >>
              THEN ring' = ring /\ drained' = drained /\ pc' = "evt_handler_clear"
              ELSE /\ ring' = Append(ring, Head(SysQueue))
                   /\ SysQueue' = Tail(SysQueue)
                   /\ drained' = Append(drained, Head(SysQueue))
                   /\ pc' = "evt_handler_loop" ]_vars
    /\ []( (pc \in {"evt_handler_loop", "evt_handler_clear"}
                \/ lastOp = "evt_handler_return") =>
              /\ Len(drained) <= Len(ring)
              /\ Newest(ring, Len(drained)) = drained
              /\ drained = SubSeq(linked, Len(delivered) + Len(ring) - Len(drained) + 1,
                                  Len(delivered) + Len(ring)) )

\* A call that found older handles in the ring has drained three nodes.
C2_Witness ==
    /\ lastOp = "evt_handler_return"
    /\ Len(drained) = 3
    /\ Len(ring) > Len(drained)
    /\ Newest(ring, 3) = drained

\* C3: ring overflow is fatal, not a silent drop. The ring never holds more
\* than 32 handles and always holds the undelivered events that follow the
\* delivered ones in link order (none overwritten); a drain turn that
\* unlinks a node while the ring holds 32 panics and leaves the ring as it
\* is; once panicked CPU1 stays panicked with those 32 events in the ring,
\* and the event that did not fit is the last one the call unlinked.
C3_OverflowIsFatal ==
    /\ []( /\ Len(ring) <= RingCapacity
           /\ ring = SubSeq(linked, Len(delivered) + 1, Len(delivered) + Len(ring))
           /\ pc = "panicked" =>
                /\ Len(ring) = RingCapacity
                /\ drained # << >>
                /\ drained[Len(drained)] = linked[Len(delivered) + RingCapacity + 1] )
    /\ [][ (lastOp' = "evt_handler" /\ SysQueue # << >> /\ Len(ring) = RingCapacity) =>
              (pc' = "panicked" /\ ring' = ring) ]_vars
    /\ [][ pc = "panicked" =>
              (pc' = "panicked" /\ ring' = ring /\ delivered' = delivered) ]_vars

C3_Witness ==
    /\ pc = "panicked"
    /\ Len(ring) = RingCapacity
    /\ Len(linked) > RingCapacity

\* C4: dequeue_event is a non-blocking pop. It never panics or blocks and
\* never touches the shared queue or a doorbell flag or mask; on an empty
\* ring it returns None and leaves the ring empty; on a non-empty ring it
\* returns the oldest handle and removes exactly that one.
C4_DequeueNonBlockingPop ==
    [][ lastOp' = "dequeue_event" =>
          /\ pc' = "idle"
          /\ lst' = lst
          /\ << rxFlag, rxEnabled, txFlag, txEnabled >>' = << rxFlag, rxEnabled, txFlag, txEnabled >>
          /\ IF ring = << >>
             THEN deqRet' = << >> /\ ring' = << >>
             ELSE deqRet' = << Head(ring) >> /\ ring' = Tail(ring) ]_vars

\* dequeue_event returned empty after an earlier delivery, while a node is
\* linked in the shared queue and the system event doorbell is pending.
C4_Witness ==
    /\ lastOp = "dequeue_event"
    /\ deqRet = << >>
    /\ delivered # << >>
    /\ SysQueue # << >>
    /\ is_rx_pending(IPCC_SYSTEM_EVENT_CHANNEL)

\* C5: wireless_fw_info returns None whenever the version word of the
\* wireless firmware information table is zero, which it is in every state
\* from the zeroing of the device information table by tl_init until CPU2
\* first writes the table; otherwise it returns the record whose version
\* and memory_size words are the words last written to the table.
C5_FwInfoPresence ==
    /\ (pc \notin {"tl_init_ref_table", "tl_init_zero_tables"}
            /\ mem["TL_DEVICE_INFO_TABLE"] = "zeroed") => wfw = ZeroedFwInfo
    /\ lastOp \in {"wireless_fw_info", "app_show_fw_info"} =>
            IF wfw.version = Zero32
            THEN fwRet = << >>
            ELSE /\ fwRet # << >>
                 /\ fwRet[1].version = wfw.version
                 /\ fwRet[1].memory_size = wfw.memory_size

\* A record was returned after CPU2 wrote a version word with bit 31 set
\* and then rewrote memory_size to zero.
C5_Witness ==
    /\ lastOp = "wireless_fw_info"
    /\ fwRet = << wfw >>
    /\ 31 \in wfw.version
    /\ wfw.memory_size = Zero32

\* The byte at bits 8k .. 8k+7 of a word, as the layout documents it.
ByteField(w, k) == NatOf({ b - 8 * k : b \in { x \in w : 8 * k <= x /\ x <= 8 * k + 7 } })

\* C6: firmware information bit layout. The fields the application decodes
\* from a returned record are the full bytes of the two words: major,
\* minor, subversion are bits 24-31, 16-23, 8-15 of version; sram2a,
\* sram2b, flash are bits 24-31, 16-23, 0-7 of memory_size.
C6_FwFieldsAreFullBytes ==
    (lastOp = "app_show_fw_info" /\ fwRet # << >>) =>
        /\ fwShown.major = ByteField(fwRet[1].version, 3)
        /\ fwShown.minor = ByteField(fwRet[1].version, 2)
        /\ fwShown.subversion = ByteField(fwRet[1].version, 1)
        /\ fwShown.sram2a = ByteField(fwRet[1].memory_size, 3)
        /\ fwShown.sram2b = ByteField(fwRet[1].memory_size, 2)
        /\ fwShown.flash = ByteField(fwRet[1].memory_size, 0)

\* A channel interrupt is unmasked, or CPU2 has been released.
TransportLive ==
    \/ cpu2Running
    \/ \E c \in Channels : rxEnabled[c] \/ txEnabled[c]

RxPriority == << 2, 3, 1, 4, 5 >>

RxLine(c) ==
    CASE c = 2 -> "IRQ IPCC_SYSTEM_EVENT_CHANNEL"
      [] c = 3 -> "IRQ IPCC_THREAD_NOTIFICATION_ACK_CHANNEL"
      [] c = 1 -> "IRQ IPCC_BLE_EVENT_CHANNEL"
      [] c = 4 -> "IRQ IPCC_TRACES_CHANNEL"
      [] c = 5 -> "IRQ THREAD_CLI_NOTIFICATION_ACK_CHANNEL"

\* Positions of the pending channels in a priority list.
PendingAt(prio, pending(_)) == { i \in 1..Len(prio) : pending(prio[i]) }

Lowest(S) == CHOOSE i \in S : \A j \in S : i <= j

\* C8: interrupt_ipcc_rx_handler serves the first rx-pending channel in
\* the order 2, 3, 1, 4, 5: whenever the system event channel is
\* rx-pending it enters Sys::evt_handler, whatever else is pending;
\* otherwise it logs the line of the first pending channel and delegates
\* to no handler.
C8_RxPriorityOrder ==
    [][ lastOp' = "interrupt_ipcc_rx_handler" =>
          LET at == PendingAt(RxPriority, is_rx_pending) IN
          /\ is_rx_pending(2) => (irq'.handler = "Sys::evt_handler" /\ pc' = "evt_handler_loop")
          /\ ~is_rx_pending(2) => (irq'.handler = "none" /\ pc' = "idle")
          /\ irq'.log = IF at = {} THEN << >> ELSE << RxLine(RxPriority[Lowest(at)]) >> ]_vars

\* Sys::evt_handler was entered while the link-layer event, stack
\* notification ack and trace channels were rx-pending as well.
C8_Witness ==
    /\ lastOp = "interrupt_ipcc_rx_handler"
    /\ irq.handler = "Sys::evt_handler"
    /\ is_rx_pending(1) /\ is_rx_pending(3) /\ is_rx_pending(4)

\* C9: when interrupt_ipcc_rx_handler runs with only an unrecognised rx
\* channel bit pending (channel 6), what it reports differs from what it
\* reports when it has nothing to report: the anomaly is flagged.
C9_UnrecognisedRxFlagged ==
    [][ ( /\ lastOp' = "interrupt_ipcc_rx_handler"
          /\ is_rx_pending(6)
          /\ \A c \in 1..5 : ~is_rx_pending(c) ) => irq' # NoIrq ]_vars

\* The tx channels in their documented priority order.
TxPriority == << 2, 3, 4, 6 >>

TxLine(c) ==
    CASE c = 2 -> "IRQ IPCC_SYSTEM_CMD_RSP_CHANNEL"
      [] c = 3 -> "IQR IPCC_THREAD_OT_CMD_RSP_CHANNEL"
      [] c = 4 -> "IRQ IPCC_MM_RELEASE_BUFFER_CHANNEL"
      [] c = 6 -> "IRQ IPCC_HCI_ACL_DATA_CHANNEL"

\* C10: interrupt_ipcc_tx_handler serves the first tx-pending channel in
\* the order 2, 3, 4, 6: the system channel goes to Sys::cmd_evt_handler,
\* the buffer-release channel (2 and 3 not pending) to
\* mm::free_buf_handler, and the stack command response and bulk data
\* channels are inert: no handler, no change of a flag or a mask.
C10_TxPriorityOrder ==
    [][ lastOp' = "interrupt_ipcc_tx_handler" =>
          LET at == PendingAt(TxPriority, is_tx_pending)
              first == IF at = {} THEN 0 ELSE TxPriority[Lowest(at)]
          IN
          /\ irq'.handler = CASE first = 2 -> "Sys::cmd_evt_handler"
                              [] first = 4 -> "mm::free_buf_handler"
                              [] OTHER -> "none"
          /\ irq'.log[1] = "IRQ interrupt_ipcc_tx_handler"
          /\ first # 0 => irq'.log[2] = TxLine(first)
          /\ first = 0 => Len(irq'.log) = 1
          /\ first \in {0, 3, 6} =>
                << rxFlag, rxEnabled, txFlag, txEnabled >>' = << rxFlag, rxEnabled, txFlag, txEnabled >>
          /\ first = 2 => ~txEnabled'[2] ]_vars

\* mm::free_buf_handler was entered with the bulk data channel tx-pending
\* too, and the system channel occupied by a command.
C10_Witness ==
    /\ lastOp = "interrupt_ipcc_tx_handler"
    /\ irq.handler = "mm::free_buf_handler"
    /\ is_tx_pending(6)
    /\ txFlag[2] /\ txEnabled[2]

(***************************************************************************)
(* C11: the system command/response handshake.                             *)
(***************************************************************************)
SysTxChannel == IPCC_SYSTEM_CMD_RSP_CHANNEL

RanCmdEvtHandler ==
    lastOp = "interrupt_ipcc_tx_handler" /\ irq.handler = "Sys::cmd_evt_handler"

\* C11: send_cmd sets the channel-2 tx flag and enables its tx interrupt; the
\* response handler runs only when the channel is tx-pending after a send_cmd
\* that CPU2 has acknowledged, it disables the tx interrupt and brings the
\* handshake back to Idle, and from Idle the channel is never tx-pending, so
\* every handler call consumes a send_cmd of its own.
C11_Handshake ==
    [][ /\ (lastOp' = "send_cmd") =>
            txFlag'[SysTxChannel] /\ txEnabled'[SysTxChannel]
        /\ RanCmdEvtHandler' =>
            /\ sysCmd = "ResponseReady"
            /\ is_tx_pending(SysTxChannel)
            /\ ~txEnabled'[SysTxChannel]
            /\ sysCmd' = "Idle"
        /\ (sysCmd = "Idle") => ~is_tx_pending(SysTxChannel)
        /\ (sysCmd' = "ResponseReady" /\ sysCmd # "ResponseReady") =>
            sysCmd = "AwaitingResponse" /\ lastOp' = "cpu2"
        /\ (sysCmd' = "AwaitingResponse" /\ sysCmd # "AwaitingResponse") =>
            lastOp' = "send_cmd" ]_vars

C11_Witness ==
    /\ RanCmdEvtHandler
    /\ sysCmd = "Idle"
    /\ ~txEnabled[SysTxChannel]
    /\ ~txFlag[SysTxChannel]

(***************************************************************************)
(* C12: the intrusive queue.                                               *)
(***************************************************************************)
SeqSet(q) == { q[i] : i \in 1..Len(q) }

Reverse(q) == [i \in 1..Len(q) |-> q[Len(q) + 1 - i]]

SysQueueBack ==
    LST_walk_back(lst, SYSTEM_EVT_QUEUE, lst.prev[SYSTEM_EVT_QUEUE], MaxNodes + 1)

HeadInitialised == lst.next[SYSTEM_EVT_QUEUE] # NoPtr

\* The inserted nodes that remove_head has handed out.
Removed == SeqSet(ring) \cup SeqSet(delivered)

ListShape ==
    HeadInitialised =>
        /\ LST_is_empty(lst, SYSTEM_EVT_QUEUE)
            <=> /\ lst.next[SYSTEM_EVT_QUEUE] = SYSTEM_EVT_QUEUE
                /\ lst.prev[SYSTEM_EVT_QUEUE] = SYSTEM_EVT_QUEUE
        /\ LST_is_empty(lst, SYSTEM_EVT_QUEUE) <=> (SeqSet(linked) = Removed)
        /\ SeqSet(SysQueue) = SeqSet(linked) \ Removed
        /\ Len(SysQueue) = Len(linked) - Cardinality(Removed)
        /\ SysQueueBack = Reverse(SysQueue)

\* C12: after any interleaving of insert_head/insert_tail and remove_head on
\* the system event queue, is_empty holds exactly when every inserted node has
\* been removed, which is exactly when the head's next and prev both reference
\* the head; the list read forwards is the list read backwards; every turn of
\* the drain loop that removes a node shortens the list by one, and the loop
\* is left only with the list empty.
C12_IntrusiveQueue ==
    [][ /\ ListShape
        /\ ListShape'
        /\ (lastOp' = "evt_handler" /\ pc' = "evt_handler_loop") =>
            /\ Len(SysQueue') = Len(SysQueue) - 1
            /\ SysQueue = << LST_head_node(lst, SYSTEM_EVT_QUEUE) >> \o SysQueue'
        /\ (lastOp' = "evt_handler" /\ pc' = "evt_handler_clear") =>
            /\ LST_is_empty(lst', SYSTEM_EVT_QUEUE)
            /\ SysQueue' = << >>
            /\ SeqSet(linked') = Removed' ]_vars

\* Nodes went in at both ends and all of them came out again.
C12_Witness ==
    /\ Len(linked) = MaxListNodes
    /\ SysQueue = << >>
    /\ Cardinality(Removed) = MaxListNodes
    /\ ring # linked
    /\ LST_is_empty(lst, SYSTEM_EVT_QUEUE)

(***************************************************************************)
(* C13: channel operations and the TlMbox that tl_init returns.            *)
(***************************************************************************)
\* tl_init has returned the TlMbox.
TlMboxExists ==
    pc \notin { "tl_init_ref_table", "tl_init_zero_tables", "tl_init_zero_buffers",
                "sys_new_init_head", "sys_new_table", "sys_new_arm", "tl_init_return" }

ChannelOps ==
    { "send_cmd", "interrupt_ipcc_rx_handler", "interrupt_ipcc_tx_handler",
      "evt_handler", "evt_handler_return", "dequeue_event" }

\* C13: no channel operation of the transport (a handler, dequeue_event or
\* send_cmd) takes a step before tl_init has returned its state object.
C13_OpsRequireInitialize == (lastOp \in ChannelOps) => TlMboxExists

(***************************************************************************)
(* C14: drain, then acknowledge.                                           *)
(***************************************************************************)
SysRxChannel == IPCC_SYSTEM_EVENT_CHANNEL

IsSuffix(a, b) ==
    /\ Len(a) <= Len(b)
    /\ a = SubSeq(b, Len(b) - Len(a) + 1, Len(b))

\* C14: Sys::evt_handler keeps the rx flag of channel 2 set while it drains,
\* clears it only in the step after it saw the queue empty, and on return the
\* flag is clear, no node is linked, and every node linked so far is in the
\* ring or was dequeued earlier, the ring ending with the nodes this one pass
\* unlinked.
C14_DrainThenAcknowledge ==
    [][ /\ (pc' = "evt_handler_loop") => rxFlag'[SysRxChannel]
        /\ (rxFlag[SysRxChannel] /\ ~rxFlag'[SysRxChannel]) =>
            /\ lastOp' = "evt_handler_return"
            /\ pc = "evt_handler_clear"
            /\ LST_is_empty(lst, SYSTEM_EVT_QUEUE)
        /\ (lastOp' = "evt_handler_return") =>
            /\ ~rxFlag'[SysRxChannel]
            /\ SysQueue' = << >>
            /\ delivered' \o ring' = linked'
            /\ IsSuffix(drained', ring') ]_vars

\* One pass moved more than one node.
C14_Witness ==
    /\ lastOp = "evt_handler_return"
    /\ Len(drained) >= 2
    /\ ~rxFlag[SysRxChannel]
    /\ SysQueue = << >>
    /\ IsSuffix(drained, ring)

(***************************************************************************)
(* C15: the two readings of the system command buffer.                     *)
(***************************************************************************)
\* C15: the buffer is read as a response only once CPU2 has released the
\* channel for the outstanding command, and send_cmd puts a new command on
\* the buffer only when no command awaits its response and no response is
\* still unread (looked at once the transport is up and CPU2 runs).
C15_BufferPhasesExclusive ==
    [][ /\ RanCmdEvtHandler' => sysCmd = "ResponseReady"
        /\ (lastOp' = "send_cmd" /\ pc = "idle") => sysCmd = "Idle" ]_vars

(***************************************************************************)
(* C16: the command response is logged, not forwarded.                     *)
(***************************************************************************)
\* C16: interrupt_ipcc_tx_handler, Sys::cmd_evt_handler included, leaves the
\* application ring, the system event queue, the events already handed out
\* and the rx flags and masks as they were, and whatever dequeue_event
\* returns is an event node CPU2 linked, never the command buffer.
C16_ResponseNotForwarded ==
    [][ /\ (lastOp' = "interrupt_ipcc_tx_handler") =>
            /\ ring' = ring
            /\ lst' = lst
            /\ linked' = linked
            /\ delivered' = delivered
            /\ rxFlag' = rxFlag
            /\ rxEnabled' = rxEnabled
        /\ RanCmdEvtHandler' =>
            irq'.log[Len(irq'.log)] = "Comand Complete Event"
        /\ (lastOp' = "dequeue_event" /\ deqRet' # << >>) =>
            /\ deqRet'[1] \in SeqSet(linked)
            /\ deqRet'[1] # SysCmdBufAddr ]_vars

\* The response handler ran while events were waiting in the ring and in the
\* queue, with the system event doorbell pending.
C16_Witness ==
    /\ RanCmdEvtHandler
    /\ ring # << >>
    /\ SysQueue # << >>
    /\ rxFlag[SysRxChannel]

(***************************************************************************)
(* C17: the state tl_init leaves behind.                                   *)
(***************************************************************************)
SysTableAdvertised ==
    /\ sysTable = [pcmd_buffer |-> "SYS_CMD_BUF", sys_queue |-> "SYSTEM_EVT_QUEUE"]
    /\ mem["TL_SYS_TABLE"] = "written"

\* C17: when tl_init has returned, the system event queue head is a
\* self-linked empty list, the system table holds the addresses of the system
\* command buffer and of that head, the device information table is all
\* zero, the application ring is empty and the system event rx channel is
\* armed; and at no time is that channel armed with the system table not yet
\* written.
C17_StateAfterInitialize ==
    /\ (pc = "set_cpu2") =>
        /\ lst.next[SYSTEM_EVT_QUEUE] = SYSTEM_EVT_QUEUE
        /\ lst.prev[SYSTEM_EVT_QUEUE] = SYSTEM_EVT_QUEUE
        /\ LST_is_empty(lst, SYSTEM_EVT_QUEUE)
        /\ SysTableAdvertised
        /\ mem["TL_DEVICE_INFO_TABLE"] = "zeroed"
        /\ wfw = ZeroedFwInfo
        /\ ring = << >>
        /\ rxEnabled[SysRxChannel]
    /\ rxEnabled[SysRxChannel] => SysTableAdvertised

C17_Witness ==
    /\ pc = "set_cpu2"
    /\ lastOp = "tl_init"
    /\ rxEnabled[SysRxChannel]
    /\ SysTableAdvertised

(***************************************************************************)
(* C18: who owns an event buffer.                                          *)
(***************************************************************************)
\* q holds every linked node exactly once.
HoldsEachLinkedOnce(q) ==
    /\ Len(q) = Len(linked)
    /\ SeqSet(q) = SeqSet(linked)

\* The handle whose enqueue failed: unlinked, never stored, lost with the panic.
LostHandle == IF pc = "panicked" THEN << drained[Len(drained)] >> ELSE << >>

\* C18 as stated: in every reachable state each event node is in exactly one
\* of three places: linked in the system event queue, held by a handle in the
\* application ring, or held by a handle the application has dequeued.
C18_ExactlyOneOfThreePlaces == HoldsEachLinkedOnce(SysQueue \o ring \o delivered)

EachNodeOwnedOnce ==
    HoldsEachLinkedOnce(SysQueue \o ring \o delivered \o LostHandle)

\* C18, amended: each event node is in exactly one of those three places or,
\* once the handler has halted on a full ring, is the one node whose handle
\* could not be stored; a handle enters the ring only in the drain step that
\* unlinks its node, so no node has two handles or is linked and referenced.
C18_ExclusiveOwnership ==
    /\ [][ (Len(ring') > Len(ring)) =>
              /\ lastOp' = "evt_handler"
              /\ SysQueue # << >>
              /\ ring' = Append(ring, Head(SysQueue))
              /\ SysQueue' = Tail(SysQueue) ]_vars
    /\ [](EachNodeOwnedOnce)

\* Nodes in all three places at once.
C18_Witness ==
    /\ Len(SysQueue) >= 2
    /\ Len(ring) >= 2
    /\ Len(delivered) >= 2
    /\ HoldsEachLinkedOnce(SysQueue \o ring \o delivered)

(***************************************************************************)
(* C19: one channel per handler call.                                      *)
(***************************************************************************)
RxPending == { c \in Channels : is_rx_pending(c) }

TxPending == { c \in Channels : is_tx_pending(c) }

\* CPU1 is inside interrupt_ipcc_rx_handler (in Sys::evt_handler).
InRxHandler == pc \in { "evt_handler_loop", "evt_handler_clear" }

\* C19: one call of interrupt_ipcc_rx_handler, from entry to return, takes at
\* most one channel out of the rx-pending set, and that one is the system
\* event channel, the first in priority, found pending at entry; every other
\* channel pending at entry or during the call keeps its flag and mask. One
\* call of interrupt_ipcc_tx_handler takes at most the first tx-pending
\* channel of its priority order out of the tx-pending set and leaves flag and
\* mask of every other channel alone. So m pending channels need at least m
\* calls.
C19_OneChannelPerCall ==
    [][ /\ (lastOp' = "interrupt_ipcc_rx_handler") =>
            /\ << rxFlag, rxEnabled, txFlag, txEnabled >>'
                  = << rxFlag, rxEnabled, txFlag, txEnabled >>
            /\ InRxHandler' => is_rx_pending(SysRxChannel)
        /\ (InRxHandler \/ InRxHandler') =>
            /\ \A c \in RxPending \ { SysRxChannel } : c \in RxPending'
            /\ TxPending \subseteq TxPending'
        /\ (lastOp' \in { "evt_handler", "evt_handler_return" }) =>
            /\ rxEnabled' = rxEnabled
            /\ \A c \in Channels \ { SysRxChannel } : rxFlag'[c] = rxFlag[c]
            /\ txFlag' = txFlag /\ txEnabled' = txEnabled
        /\ (\E c \in RxPending : c \notin RxPending') =>
            /\ lastOp' = "evt_handler_return"
            /\ RxPending \ RxPending' = { SysRxChannel }
        /\ (lastOp' = "interrupt_ipcc_tx_handler") =>
            LET at == PendingAt(TxPriority, is_tx_pending)
                first == IF at = {} THEN 0 ELSE TxPriority[Lowest(at)]
            IN  /\ txFlag' = txFlag
                /\ rxFlag' = rxFlag /\ rxEnabled' = rxEnabled
                /\ \A c \in Channels \ { first } : txEnabled'[c] = txEnabled[c]
                /\ TxPending \ TxPending' \subseteq { first }
                /\ Cardinality(TxPending') >= Cardinality(TxPending) - 1 ]_vars

\* The response handler has served the system command channel and left the
\* buffer-release and bulk data channels tx-pending, while on the rx side the
\* inert channels are still pending after the system event channel was served.
C19_Witness ==
    /\ RanCmdEvtHandler
    /\ TxPending = { IPCC_MM_RELEASE_BUFFER_CHANNEL, IPCC_HCI_ACL_DATA_CHANNEL }
    /\ RxPending = { IPCC_THREAD_NOTIFICATION_ACK_CHANNEL, IPCC_TRACES_CHANNEL }
    /\ ring # << >>

(***************************************************************************)
(* C20: the inert rx channels.                                             *)
(***************************************************************************)
\* The rx channels the handler knows but has no handler for.
InertRxChannels ==
    { IPCC_THREAD_NOTIFICATION_ACK_CHANNEL, IPCC_BLE_EVENT_CHANNEL,
      IPCC_TRACES_CHANNEL, IPCC_THREAD_CLI_NOTIFICATION_ACK_CHANNEL }

\* C20: a call of interrupt_ipcc_rx_handler that takes the branch of an
\* inert channel changes neither the ring, the system event queue, the
\* tables nor any doorbell flag or mask, that channel's own flag included,
\* and returns at once; and a pending system event doorbell is entered
\* by the very next call whatever inert channels are pending beside it.
C20_InertRxChannels ==
    [][ (lastOp' = "interrupt_ipcc_rx_handler") =>
          /\ (~is_rx_pending(SysRxChannel) /\ RxPending \cap InertRxChannels # {}) =>
                /\ irq'.handler = "none"
                /\ Len(irq'.log) = 1
                /\ pc' = "idle"
                /\ << ring, lst, linked, delivered >>' = << ring, lst, linked, delivered >>
                /\ << rxFlag, rxEnabled, txFlag, txEnabled >>'
                      = << rxFlag, rxEnabled, txFlag, txEnabled >>
                /\ << refTable, mem, sysTable, wfw >>' = << refTable, mem, sysTable, wfw >>
                /\ RxPending' = RxPending
          /\ is_rx_pending(SysRxChannel) =>
                /\ irq' = [log |-> << "IRQ IPCC_SYSTEM_EVENT_CHANNEL" >>,
                           handler |-> "Sys::evt_handler"]
                /\ pc' = "evt_handler_loop" ]_vars

\* The trace channel was notified, with an event in the ring and another
\* linked in the queue, and is still pending.
C20_Witness ==
    /\ lastOp = "interrupt_ipcc_rx_handler"
    /\ irq = [log |-> << "IRQ IPCC_TRACES_CHANNEL" >>, handler |-> "none"]
    /\ is_rx_pending(IPCC_TRACES_CHANNEL)
    /\ ring # << >>
    /\ SysQueue # << >>

=============================================================================
